---- MODULE Spec2Model ----
(***************************************************************************)
(* Process-lifecycle supervisor of the SENSE backend                       *)
(* (python/senseai/server.py, SenseServer) together with the environment   *)
(* it observes: the OS process table, the PID file shared by all           *)
(* controller invocations, and the health endpoint on the configured port. *)
(*                                                                         *)
(* Each SenseServer instance i \in Inst is one controller invocation (a    *)
(* library user or one CLI command).  A call of start() or stop() is a     *)
(* sequence of steps (pc[i]); the environment (backend becoming ready,     *)
(* processes exiting, unrelated processes taking a free PID) and the other *)
(* instance interleave between the steps.  A call that has returned or     *)
(* raised rests at pc[i] = "done" with its outcome in ret[i] until the     *)
(* caller takes it (Ack).  restart(), the exit-time hook and get_status()  *)
(* are further actions of the same machine (SpecRestart, SpecExit,         *)
(* SpecStatus).                                                            *)
(*                                                                         *)
(* The leaves the supervisor composes are modelled on their own:           *)
(* BinaryManager.get_binary_path() over a changing file system             *)
(* (SpecBinary), the PID store (SpecPidStore) and                          *)
(* BinaryManager.get_platform_info() (SpecPlatform).                       *)
(***************************************************************************)
EXTENDS Integers, Sequences, FiniteSets, TLC

\* ------------------------------------------------------------------ bounds
MaxPid == 2          \* PIDs the OS hands out are 1..MaxPid (PIDs are reused)
MaxTimeout == 1      \* start(timeout=T) is called with T \in 1..MaxTimeout seconds
MaxInt == 12         \* the PID store is exercised with the integers -MaxInt..MaxInt
MaxFindings == 3     \* the backend answers GET /findings with at most MaxFindings findings
MaxSeverity == 2     \* severities are 0..MaxSeverity
MaxEvents == 3       \* an event stream carries at most MaxEvents events

\* ------------------------------------------------------- program constants
PollsPerSecond == 2  \* time.sleep(0.5): readiness polls per second of timeout

Inst == {1, 2}
Pids == 1..MaxPid
Timeouts == 1..MaxTimeout

VARIABLES
    procs,      \* OS process table: Pids -> [alive, kind, ready]
    pidFile,    \* ~/.senseai/server.pid: [exists, text]
    handle,     \* self.process of each instance
    use_sudo,   \* self.use_sudo of each instance
    pc,         \* position of each instance inside start()/stop()
    ret,        \* outcome of the call in progress, once it has returned/raised
    timeout,    \* the timeout argument of the start() in progress (seconds)
    wait_for_ready, \* the wait_for_ready argument of the start() in progress
    elapsed,    \* time.time() - start_time of the readiness wait, in poll intervals
    sent,       \* signals the stop() in progress has sent through the handle
    via,        \* what the stop()/start() in progress was called from: the
                \* caller ("api"), restart(), or the atexit hook
    binary_path, \* the binary_path local of start(): what get_binary_path() returned
    status,     \* the status dict of the get_status() in progress
    process,    \* the psutil.Process local of the get_status() in progress
    bm,         \* a BinaryManager and the file system and network it looks at
    ps,         \* the last PID-store operation of a caller and what it returned
    pl,         \* platform.system(), platform.machine() and get_platform_info()'s result
    cl          \* the last SenseClient call: what the backend sent and what came back

vars == <<procs, pidFile, handle, use_sudo, pc, ret, timeout, wait_for_ready, elapsed, sent,
          via, binary_path, status, process, bm, ps, pl, cl>>

\* ----------------------------------------------------------- Optional[int]
None == <<>>
Some(n) == <<n>>

\* ------------------------------------------------------- str(pid) / int(s)
Digits == <<"0", "1", "2", "3", "4", "5", "6", "7", "8", "9">>

RECURSIVE Str(_)
Str(n) == IF n < 0 THEN <<"-">> \o Str(0 - n)
          ELSE IF n < 10 THEN <<Digits[n + 1]>>
          ELSE Str(n \div 10) \o <<Digits[(n % 10) + 1]>>

DigitValue(c) == CHOOSE d \in 0..9 : Digits[d + 1] = c

IsDigit(c) == \E d \in 0..9 : Digits[d + 1] = c

RECURSIVE Strip(_)
Strip(s) == IF s = <<>> THEN s
            ELSE IF Head(s) = " " THEN Strip(Tail(s))
            ELSE IF s[Len(s)] = " " THEN Strip(SubSeq(s, 1, Len(s) - 1))
            ELSE s

RECURSIVE DigitsValue(_)
DigitsValue(s) == IF s = <<>> THEN 0
                  ELSE 10 * DigitsValue(SubSeq(s, 1, Len(s) - 1)) + DigitValue(s[Len(s)])

\* int(text.strip()); ValueError is rendered as None
ParseInt(text) ==
    LET s == Strip(text) IN
    IF s # <<>> /\ \A k \in 1..Len(s) : IsDigit(s[k]) THEN Some(DigitsValue(s))
    ELSE IF Len(s) > 1 /\ Head(s) = "-" /\ \A k \in 2..Len(s) : IsDigit(s[k])
         THEN Some(0 - DigitsValue(Tail(s)))
    ELSE None

\* ---------------------------------------------------------------- PID file
NoFile == [exists |-> FALSE, text |-> <<>>]

_save_pid(pid) == [exists |-> TRUE, text |-> Str(pid)]

\* _read_pid() that hands a stored 0 back as None, as a truth test on the
\* parsed value would
_read_pid_ZeroIsNone ==
    IF pidFile.exists /\ ParseInt(pidFile.text) # Some(0) THEN ParseInt(pidFile.text) ELSE None

_read_pid == IF pidFile.exists THEN ParseInt(pidFile.text) ELSE None

_remove_pid == NoFile

\* ------------------------------------------------------------ process table
Kinds == {"sense", "sudo", "other"}
NoProc == [alive |-> FALSE, kind |-> "other", ready |-> FALSE]

\* process.name() as psutil reports it
ProcName(p) == procs[p].kind

\* "sense" in process.name().lower()
NameMatches(p) == ProcName(p) = "sense"

\* os.kill() on the root-owned sudo wrapper raises PermissionError
SignalDenied(p) == procs[p].kind = "sudo"

\* SenseClient.health_check(): GET /findings answers 200
health_check == \E p \in Pids : procs[p].alive /\ procs[p].ready

\* ------------------------------------------------------------------ handles
NoHandle == [held |-> FALSE, pid |-> 0, exited |-> FALSE]
Popen(p) == [held |-> TRUE, pid |-> p, exited |-> FALSE]

\* self.process and self.process.poll() is None
HandleLive(i) == handle[i].held /\ ~handle[i].exited

\* tier 2 of is_running(): the verdict of the PID-file check, None when the
\* check is inconclusive (no file, unparsable, pid 0, NoSuchProcess).  A live
\* process with another name yields Some(FALSE): line 174 returns it.  (The
\* file only ever holds what _save_pid wrote, so no negative pid is read.)
PidTier ==
    LET pid == _read_pid IN
    IF pid = None \/ pid[1] = 0 THEN None
    ELSE IF pid[1] \in Pids /\ procs[pid[1]].alive THEN Some(NameMatches(pid[1]))
    ELSE None

\* is_running() that trusts a handle without polling it
is_running_IgnoresPoll(i) ==
    IF handle[i].held THEN TRUE
    ELSE IF PidTier # None THEN PidTier[1]
    ELSE health_check

is_running(i) ==
    IF HandleLive(i) THEN TRUE
    ELSE IF PidTier # None THEN PidTier[1]
    ELSE health_check

\* ---------------------------------------------------------------- outcomes
NoRet == [status |-> "none", detail |-> 0]
Ret(s, d) == [status |-> s, detail |-> d]

\* no get_status() in progress
NoStatus == [running |-> FALSE]

\* get_status(), lines 189-195: the dict as first built
BaseStatus(running) ==
    [running |-> running, port |-> "self.port", interface |-> "self.interface",
     db_path |-> "self.db_path"]

\* get_status(), line 198: self._read_pid() or (self.process.pid if
\* self.process else None); a pid of 0 read from the file is falsy
StatusPid(i) ==
    IF _read_pid # None /\ _read_pid[1] # 0 THEN _read_pid
    ELSE IF handle[i].held THEN Some(handle[i].pid)
    ELSE None

\* ------------------------------------------------- get_platform_info
\* a str is the sequence of its characters
Lowercase == <<"a", "b", "c", "d", "e", "f", "g", "h", "i", "j", "k", "l", "m", "n", "o", "p", "q", "r", "s", "t", "u", "v", "w", "x", "y", "z">>
Uppercase == <<"A", "B", "C", "D", "E", "F", "G", "H", "I", "J", "K", "L", "M", "N", "O", "P", "Q", "R", "S", "T", "U", "V", "W", "X", "Y", "Z">>

\* str.lower(), character by character
LowerChar(c) ==
    IF \E k \in 1..26 : Uppercase[k] = c
    THEN Lowercase[CHOOSE k \in 1..26 : Uppercase[k] = c]
    ELSE c

Lower(s) == [k \in 1..Len(s) |-> LowerChar(s[k])]

\* dict.get(key, default) on a dict given as its set of <<key, value>> items
Get(d, key, default) ==
    IF \E e \in d : e[1] = key THEN (CHOOSE e \in d : e[1] = key)[2] ELSE default

darwin == <<"d", "a", "r", "w", "i", "n">>
linux == <<"l", "i", "n", "u", "x">>
windows == <<"w", "i", "n", "d", "o", "w", "s">>
x86_64 == <<"x", "8", "6", "_", "6", "4">>
amd64 == <<"a", "m", "d", "6", "4">>
arm64 == <<"a", "r", "m", "6", "4">>
aarch64 == <<"a", "a", "r", "c", "h", "6", "4">>

\* the two literal dicts of lines 44-56
os_map == {<<darwin, darwin>>, <<linux, linux>>, <<windows, windows>>}
arch_map == {<<x86_64, amd64>>, <<amd64, amd64>>, <<arm64, arm64>>, <<aarch64, arm64>>}

\* get_platform_info() that looks the reported strings up as they are
get_platform_info_NoLower(sys, mach) ==
    <<Get(os_map, sys, sys), Get(arch_map, mach, mach)>>

\* get_platform_info() on a platform reporting sys as platform.system() and
\* mach as platform.machine()
get_platform_info(sys, mach) ==
    LET system == Lower(sys)
        machine == Lower(mach)
    IN  <<Get(os_map, system, system), Get(arch_map, machine, machine)>>

\* what platform.system() and platform.machine() are made to report
Systems ==
    {<<"D", "a", "r", "w", "i", "n">>,
     <<"L", "i", "n", "u", "x">>,
     <<"W", "i", "n", "d", "o", "w", "s">>,
     <<"D", "A", "R", "W", "I", "N">>,
     <<"l", "i", "n", "u", "x">>,
     <<"w", "I", "N", "D", "O", "W", "S">>,
     <<"F", "r", "e", "e", "B", "S", "D">>,
     <<"J", "a", "v", "a">>,
     <<"S", "u", "n", "O", "S">>,
     <<>>}
Machines ==
    {<<"x", "8", "6", "_", "6", "4">>,
     <<"X", "8", "6", "_", "6", "4">>,
     <<"A", "M", "D", "6", "4">>,
     <<"a", "m", "d", "6", "4">>,
     <<"a", "r", "m", "6", "4">>,
     <<"A", "R", "M", "6", "4">>,
     <<"a", "a", "r", "c", "h", "6", "4">>,
     <<"A", "A", "r", "c", "h", "6", "4">>,
     <<"i", "3", "8", "6">>,
     <<"a", "r", "m", "v", "7", "l">>,
     <<>>}

\* a BinaryManager nobody has constructed, a PID store nobody has called, a
\* platform nobody has asked for
BmIdle == [platform |-> "none", inPath |-> FALSE, dev |-> FALSE, cache |-> FALSE,
           cacheExe |-> FALSE, net |-> FALSE, cacheDirOk |-> FALSE, chmodOk |-> FALSE,
           memo |-> "none", attempted |-> <<>>, result |-> "none", ok |-> FALSE]
PsIdle == [op |-> "none", content |-> "missing", n |-> 0, result |-> None]
PlIdle == [asked |-> FALSE, system |-> <<>>, machine |-> <<>>, os_name |-> <<>>, arch |-> <<>>]

\* a SenseClient nobody has called
NoBody == [type |-> "null", items |-> <<>>]
ClIdle == [op |-> "none", http |-> "ok", body |-> NoBody, limit |-> None, min |-> 0, max |-> 0,
           events |-> <<>>, pos |-> 0, raised |-> "none", result |-> <<>>]

\* the supervisor side of the initial state: nothing spawned, no PID file
SupInit ==
    /\ procs = [p \in Pids |-> NoProc]
    /\ pidFile = NoFile
    /\ handle = [i \in Inst |-> NoHandle]
    /\ use_sudo \in [Inst -> BOOLEAN]
    /\ pc = [i \in Inst |-> "idle"]
    /\ ret = [i \in Inst |-> NoRet]
    /\ timeout = [i \in Inst |-> 0]
    /\ wait_for_ready = [i \in Inst |-> FALSE]
    /\ elapsed = [i \in Inst |-> 0]
    /\ sent = [i \in Inst |-> <<>>]
    /\ via = [i \in Inst |-> "api"]
    /\ binary_path = [i \in Inst |-> None]
    /\ status = [i \in Inst |-> NoStatus]
    /\ process = [i \in Inst |-> NoHandle]

supVars == <<procs, pidFile, handle, use_sudo, pc, ret, timeout, wait_for_ready, elapsed, sent,
             via, binary_path, status, process>>

Init ==
    /\ SupInit
    /\ bm = BmIdle
    /\ ps = PsIdle
    /\ pl = PlIdle
    /\ cl = ClIdle

\* ------------------------------------------------------------- environment
\* the backend binds the port and starts answering GET /findings
BackendReady(p) ==
    /\ procs[p].alive /\ procs[p].kind # "other" /\ ~procs[p].ready
    /\ procs' = [procs EXCEPT ![p].ready = TRUE]
    /\ UNCHANGED <<pidFile, handle, use_sudo, pc, ret, timeout, wait_for_ready, elapsed, sent>>
    /\ UNCHANGED <<via, binary_path, status, process, bm, ps, pl, cl>>

\* a process exits (crash, reaction to SIGTERM, SIGKILL); every Popen handle
\* on it reports an exit status from now on, and its PID becomes free
ProcExit(p) ==
    /\ procs[p].alive
    /\ procs' = [procs EXCEPT ![p] = NoProc]
    /\ handle' = [i \in Inst |->
                    IF handle[i].held /\ handle[i].pid = p
                    THEN [handle[i] EXCEPT !.exited = TRUE] ELSE handle[i]]
    /\ UNCHANGED <<pidFile, use_sudo, pc, ret, timeout, wait_for_ready, elapsed, sent>>
    /\ process' = [i \in Inst |->
                    IF process[i].held /\ process[i].pid = p
                    THEN [process[i] EXCEPT !.exited = TRUE] ELSE process[i]]
    /\ UNCHANGED <<via, binary_path, status, bm, ps, pl, cl>>

\* an unrelated program is started and receives a free (possibly reused) PID
OtherSpawn(p) ==
    /\ ~procs[p].alive
    /\ procs' = [procs EXCEPT ![p] = [alive |-> TRUE, kind |-> "other", ready |-> FALSE]]
    /\ UNCHANGED <<pidFile, handle, use_sudo, pc, ret, timeout, wait_for_ready, elapsed, sent>>
    /\ UNCHANGED <<via, binary_path, status, process, bm, ps, pl, cl>>

\* ------------------------------------------------------------ SenseServer
\* the call of instance i returns or raises with outcome r; its arguments and
\* locals go out of scope
Return(i, r) ==
    /\ pc' = [pc EXCEPT ![i] = "done"]
    /\ ret' = [ret EXCEPT ![i] = r]
    /\ timeout' = [timeout EXCEPT ![i] = 0]
    /\ wait_for_ready' = [wait_for_ready EXCEPT ![i] = FALSE]
    /\ elapsed' = [elapsed EXCEPT ![i] = 0]

\* stop() of instance i returns or raises with outcome r: to restart(), which
\* goes on to its pause unless stop() raised; to the interpreter running the
\* atexit hooks, which ends the controller process whatever the hook did; or
\* to the caller
StopReturn(i, r) ==
    IF via[i] = "restart" /\ r.status # "stop_error"
    THEN /\ pc' = [pc EXCEPT ![i] = "restart_pause"]
         /\ ret' = [ret EXCEPT ![i] = r]
         /\ UNCHANGED <<timeout, wait_for_ready, elapsed>>
    ELSE IF via[i] = "atexit"
    THEN /\ pc' = [pc EXCEPT ![i] = "exited"]
         /\ ret' = [ret EXCEPT ![i] = r]
         /\ UNCHANGED <<timeout, wait_for_ready, elapsed>>
    ELSE Return(i, r)

\* start() without the guard of line 63: it goes on to spawn although
\* is_running() reports true
StartBegin_NoGuard(i, wfr, T, binary_ok) ==
    /\ pc[i] = "idle"
    /\ IF ~binary_ok
       THEN Return(i, Ret("start_nobinary", 0))
       ELSE /\ pc' = [pc EXCEPT ![i] = "spawn"]
            /\ timeout' = [timeout EXCEPT ![i] = T]
            /\ wait_for_ready' = [wait_for_ready EXCEPT ![i] = wfr]
            /\ UNCHANGED <<ret, elapsed>>
    /\ UNCHANGED <<procs, pidFile, handle, use_sudo, sent>>
    /\ binary_path' = [binary_path EXCEPT ![i] = IF binary_ok THEN Some("sense") ELSE None]
    /\ UNCHANGED <<via, status, process, bm, ps, pl, cl>>

\* start() whose guard asks only the health probe, not the handle
StartBody_ProbeOnlyGuard(i, wfr, T, binary_ok) ==
    /\ IF health_check
       THEN Return(i, Ret("start_noop", 0))
       ELSE IF ~binary_ok
       THEN Return(i, Ret("start_nobinary", 0))
       ELSE /\ pc' = [pc EXCEPT ![i] = "spawn"]
            /\ timeout' = [timeout EXCEPT ![i] = T]
            /\ wait_for_ready' = [wait_for_ready EXCEPT ![i] = wfr]
            /\ UNCHANGED <<ret, elapsed>>
    /\ UNCHANGED <<procs, pidFile, handle, use_sudo, sent>>
    /\ binary_path' = [binary_path EXCEPT ![i] =
                          IF ~health_check /\ binary_ok THEN Some("sense") ELSE None]
    /\ UNCHANGED <<via, status, process, bm, ps, pl, cl>>

\* start(), lines 63-71: the idempotence guard and binary resolution
\* (binary_ok: whether binary_manager.get_binary_path() returns)
StartBody(i, wfr, T, binary_ok) ==
    /\ IF is_running(i)
       THEN Return(i, Ret("start_noop", 0))
       ELSE IF ~binary_ok
       THEN Return(i, Ret("start_nobinary", 0))
       ELSE /\ pc' = [pc EXCEPT ![i] = "spawn"]
            /\ timeout' = [timeout EXCEPT ![i] = T]
            /\ wait_for_ready' = [wait_for_ready EXCEPT ![i] = wfr]
            /\ UNCHANGED <<ret, elapsed>>
    /\ UNCHANGED <<procs, pidFile, handle, use_sudo, sent>>
    /\ binary_path' = [binary_path EXCEPT ![i] =
                          IF ~is_running(i) /\ binary_ok THEN Some("sense") ELSE None]
    /\ UNCHANGED <<via, status, process, bm, ps, pl, cl>>

\* start() that swallows the failure of get_binary_path() and goes on to
\* spawn without a binary path
StartBegin_IgnoresResolveFailure(i, wfr, T, binary_ok) ==
    /\ pc[i] = "idle"
    /\ IF is_running(i)
       THEN Return(i, Ret("start_noop", 0))
       ELSE /\ pc' = [pc EXCEPT ![i] = "spawn"]
            /\ timeout' = [timeout EXCEPT ![i] = T]
            /\ wait_for_ready' = [wait_for_ready EXCEPT ![i] = wfr]
            /\ UNCHANGED <<ret, elapsed>>
    /\ binary_path' = [binary_path EXCEPT ![i] =
                          IF ~is_running(i) /\ binary_ok THEN Some("sense") ELSE None]
    /\ UNCHANGED <<procs, pidFile, handle, use_sudo, sent>>
    /\ UNCHANGED <<via, status, process, bm, ps, pl, cl>>

\* a caller calls start(wait_for_ready=wfr, timeout=T)
StartBegin(i, wfr, T, binary_ok) ==
    /\ pc[i] = "idle"
    /\ StartBody(i, wfr, T, binary_ok)

\* start(), lines 74-99: subprocess.Popen(cmd); with use_sudo the child is sudo.
\* With no PID free the fork fails and start() raises ServerError.
StartSpawn(i) ==
    /\ pc[i] = "spawn"
    /\ IF \E p \in Pids : ~procs[p].alive
       THEN \E p \in Pids :
            /\ ~procs[p].alive
            /\ procs' = [procs EXCEPT ![p] =
                  [alive |-> TRUE, kind |-> IF use_sudo[i] THEN "sudo" ELSE "sense",
                   ready |-> FALSE]]
            /\ handle' = [handle EXCEPT ![i] = Popen(p)]
            /\ pc' = [pc EXCEPT ![i] = "savepid"]
            /\ UNCHANGED <<ret, timeout, wait_for_ready, elapsed>>
       ELSE /\ Return(i, Ret("start_failed", 0))
            /\ UNCHANGED <<procs, handle>>
    /\ UNCHANGED <<pidFile, use_sudo, sent>>
    /\ UNCHANGED <<via, binary_path, status, process, bm, ps, pl, cl>>

\* start() that leaves a PID file it finds in place instead of overwriting it
StartSavePid_KeepsFirst(i) ==
    /\ pc[i] = "savepid"
    /\ pidFile' = IF pidFile.exists THEN pidFile ELSE _save_pid(handle[i].pid)
    /\ IF wait_for_ready[i]
       THEN /\ pc' = [pc EXCEPT ![i] = "wait"]
            /\ elapsed' = [elapsed EXCEPT ![i] = 0]
            /\ UNCHANGED <<ret, timeout, wait_for_ready>>
       ELSE Return(i, Ret("start_ok", 0))
    /\ UNCHANGED <<procs, handle, use_sudo, sent>>
    /\ UNCHANGED <<via, binary_path, status, process, bm, ps, pl, cl>>

\* start() that enters the readiness wait, or returns, before it has written
\* the PID file
StartSavePid_ProbesFirst(i) ==
    /\ pc[i] = "savepid"
    /\ IF wait_for_ready[i]
       THEN /\ pc' = [pc EXCEPT ![i] = "wait"]
            /\ elapsed' = [elapsed EXCEPT ![i] = 0]
            /\ UNCHANGED <<ret, timeout, wait_for_ready>>
       ELSE Return(i, Ret("start_ok", 0))
    /\ UNCHANGED <<procs, pidFile, handle, use_sudo, sent>>
    /\ UNCHANGED <<via, binary_path, status, process, bm, ps, pl, cl>>

\* start(), lines 101-108: self._save_pid(self.process.pid), then the wait
StartSavePid(i) ==
    /\ pc[i] = "savepid"
    /\ pidFile' = _save_pid(handle[i].pid)
    /\ IF wait_for_ready[i]
       THEN /\ pc' = [pc EXCEPT ![i] = "wait"]
            /\ elapsed' = [elapsed EXCEPT ![i] = 0]
            /\ UNCHANGED <<ret, timeout, wait_for_ready>>
       ELSE Return(i, Ret("start_ok", 0))
    /\ UNCHANGED <<procs, handle, use_sudo, sent>>
    /\ UNCHANGED <<via, binary_path, status, process, bm, ps, pl, cl>>

\* _wait_for_ready() whose timeout error names the polls counted instead of
\* the timeout argument
WaitIter_NamesElapsed(i) ==
    /\ pc[i] = "wait"
    /\ IF ~(elapsed[i] < timeout[i] * PollsPerSecond)
       THEN Return(i, Ret("start_timeout", elapsed[i]))
       ELSE IF health_check
       THEN Return(i, Ret("start_ok", 0))
       ELSE IF handle[i].held /\ handle[i].exited
       THEN Return(i, Ret("start_died", handle[i].pid))
       ELSE /\ elapsed' = [elapsed EXCEPT ![i] = elapsed[i] + 1]
            /\ UNCHANGED <<pc, ret, timeout, wait_for_ready>>
    /\ UNCHANGED <<procs, pidFile, handle, use_sudo, sent>>
    /\ UNCHANGED <<via, binary_path, status, process, bm, ps, pl, cl>>

\* _wait_for_ready() that drops the handle of the process it gives up on when
\* the deadline passes
WaitIter_DropsOnTimeout(i) ==
    /\ pc[i] = "wait"
    /\ IF ~(elapsed[i] < timeout[i] * PollsPerSecond)
       THEN /\ Return(i, Ret("start_timeout", timeout[i]))
            /\ handle' = [handle EXCEPT ![i] = NoHandle]
       ELSE IF health_check
       THEN Return(i, Ret("start_ok", 0)) /\ UNCHANGED handle
       ELSE IF handle[i].held /\ handle[i].exited
       THEN Return(i, Ret("start_died", handle[i].pid)) /\ UNCHANGED handle
       ELSE /\ elapsed' = [elapsed EXCEPT ![i] = elapsed[i] + 1]
            /\ UNCHANGED <<pc, ret, timeout, wait_for_ready, handle>>
    /\ UNCHANGED <<procs, pidFile, use_sudo, sent>>
    /\ UNCHANGED <<via, binary_path, status, process, bm, ps, pl, cl>>

\* _wait_for_ready(), lines 223-234: one evaluation of the loop condition and,
\* when it holds, one iteration (probe, death check, sleep 0.5 s)
WaitIter(i) ==
    /\ pc[i] = "wait"
    /\ IF ~(elapsed[i] < timeout[i] * PollsPerSecond)
       THEN Return(i, Ret("start_timeout", timeout[i]))
       ELSE IF health_check
       THEN Return(i, Ret("start_ok", 0))
       ELSE IF handle[i].held /\ handle[i].exited
       THEN Return(i, Ret("start_died", handle[i].pid))
       ELSE /\ elapsed' = [elapsed EXCEPT ![i] = elapsed[i] + 1]
            /\ UNCHANGED <<pc, ret, timeout, wait_for_ready>>
    /\ UNCHANGED <<procs, pidFile, handle, use_sudo, sent>>
    /\ UNCHANGED <<via, binary_path, status, process, bm, ps, pl, cl>>

\* stop() that cleans up in a finally clause: when terminate() raises, the
\* handle is dropped and the PID file removed all the same
StopBegin_CleanupOnError(i) ==
    /\ pc[i] = "idle"
    /\ IF ~is_running(i)
       THEN /\ StopReturn(i, Ret("stop_noop", 0))
            /\ UNCHANGED <<pidFile, handle, sent>>
       ELSE IF handle[i].held
       THEN IF handle[i].exited
            THEN /\ pc' = [pc EXCEPT ![i] = "stop_wait"]
                 /\ UNCHANGED <<ret, timeout, wait_for_ready, elapsed, pidFile, handle, sent>>
            ELSE IF SignalDenied(handle[i].pid)
            THEN /\ StopReturn(i, Ret("stop_error", 0))
                 /\ handle' = [handle EXCEPT ![i] = NoHandle]
                 /\ pidFile' = _remove_pid
                 /\ UNCHANGED sent
            ELSE /\ sent' = [sent EXCEPT ![i] = <<"terminate">>]
                 /\ pc' = [pc EXCEPT ![i] = "stop_wait"]
                 /\ UNCHANGED <<ret, timeout, wait_for_ready, elapsed, pidFile, handle>>
       ELSE /\ pidFile' = _remove_pid
            /\ StopReturn(i, Ret("stop_ok", 0))
            /\ UNCHANGED <<handle, sent>>
    /\ UNCHANGED <<procs, use_sudo>>
    /\ UNCHANGED <<via, binary_path, status, process, bm, ps, pl, cl>>

\* stop() that, holding no handle, sends SIGTERM to the PID it reads from the
\* PID file before it removes the file
StopBody_SignalsPidFile(i) ==
    /\ IF ~is_running(i)
       THEN /\ StopReturn(i, Ret("stop_noop", 0))
            /\ UNCHANGED <<pidFile, sent>>
       ELSE IF handle[i].held
       THEN IF handle[i].exited
            THEN /\ pc' = [pc EXCEPT ![i] = "stop_wait"]
                 /\ UNCHANGED <<ret, timeout, wait_for_ready, elapsed, pidFile, sent>>
            ELSE IF SignalDenied(handle[i].pid)
            THEN /\ StopReturn(i, Ret("stop_error", 0))
                 /\ UNCHANGED <<pidFile, sent>>
            ELSE /\ sent' = [sent EXCEPT ![i] = <<"terminate">>]
                 /\ pc' = [pc EXCEPT ![i] = "stop_wait"]
                 /\ UNCHANGED <<ret, timeout, wait_for_ready, elapsed, pidFile>>
       ELSE /\ pidFile' = _remove_pid
            /\ StopReturn(i, Ret("stop_ok", 0))
            /\ sent' = [sent EXCEPT ![i] = IF _read_pid # None THEN <<"terminate">> ELSE <<>>]
    /\ UNCHANGED <<procs, handle, use_sudo>>
    /\ UNCHANGED <<via, binary_path, status, process, bm, ps, pl, cl>>

\* stop(), lines 120-128 and 141-145: the guard, then terminate() through the
\* handle (a no-op on an exited handle, PermissionError on a root-owned one),
\* or, with no handle, straight to _remove_pid()
StopBody(i) ==
    /\ IF ~is_running(i)
       THEN /\ StopReturn(i, Ret("stop_noop", 0))
            /\ UNCHANGED <<pidFile, sent>>
       ELSE IF handle[i].held
       THEN IF handle[i].exited
            THEN /\ pc' = [pc EXCEPT ![i] = "stop_wait"]
                 /\ UNCHANGED <<ret, timeout, wait_for_ready, elapsed, pidFile, sent>>
            ELSE IF SignalDenied(handle[i].pid)
            THEN /\ StopReturn(i, Ret("stop_error", 0))
                 /\ UNCHANGED <<pidFile, sent>>
            ELSE /\ sent' = [sent EXCEPT ![i] = <<"terminate">>]
                 /\ pc' = [pc EXCEPT ![i] = "stop_wait"]
                 /\ UNCHANGED <<ret, timeout, wait_for_ready, elapsed, pidFile>>
       ELSE /\ pidFile' = _remove_pid
            /\ StopReturn(i, Ret("stop_ok", 0))
            /\ UNCHANGED sent
    /\ UNCHANGED <<procs, handle, use_sudo>>
    /\ UNCHANGED <<via, binary_path, status, process, bm, ps, pl, cl>>

\* a caller calls stop()
StopBegin(i) ==
    /\ pc[i] = "idle"
    /\ StopBody(i)

\* stop(), lines 138-142: what follows a wait that observed the exit
StopFinish(i) ==
    /\ handle' = [handle EXCEPT ![i] = NoHandle]
    /\ pidFile' = _remove_pid
    /\ StopReturn(i, Ret("stop_ok", 0))

\* stop(), line 131: process.wait(timeout) returns, the process has exited
StopWaitExit(i) ==
    /\ pc[i] = "stop_wait"
    /\ handle[i].exited
    /\ StopFinish(i)
    /\ UNCHANGED <<procs, use_sudo, sent>>
    /\ UNCHANGED <<via, binary_path, status, process, bm, ps, pl, cl>>

\* stop() that kills after the graceful wait whether or not the wait
\* observed the exit
StopWaitTimeout_AlwaysKill(i) ==
    /\ pc[i] = "stop_wait"
    /\ sent' = [sent EXCEPT ![i] = Append(sent[i], "kill")]
    /\ pc' = [pc EXCEPT ![i] = "stop_killwait"]
    /\ UNCHANGED <<procs, pidFile, handle, use_sudo, ret, timeout, wait_for_ready, elapsed>>
    /\ UNCHANGED <<via, binary_path, status, process, bm, ps, pl, cl>>

\* stop(), lines 132-135: TimeoutExpired, the process is still there: kill()
\* (which raises like terminate() when the signal is denied)
StopWaitTimeout(i) ==
    /\ pc[i] = "stop_wait"
    /\ ~handle[i].exited
    /\ IF SignalDenied(handle[i].pid)
       THEN /\ StopReturn(i, Ret("stop_error", 0))
            /\ UNCHANGED sent
       ELSE /\ sent' = [sent EXCEPT ![i] = Append(sent[i], "kill")]
            /\ pc' = [pc EXCEPT ![i] = "stop_killwait"]
            /\ UNCHANGED <<ret, timeout, wait_for_ready, elapsed>>
    /\ UNCHANGED <<procs, pidFile, handle, use_sudo>>
    /\ UNCHANGED <<via, binary_path, status, process, bm, ps, pl, cl>>

\* stop(), line 136: process.wait() without timeout returns
StopKillWait(i) ==
    /\ pc[i] = "stop_killwait"
    /\ handle[i].exited
    /\ StopFinish(i)
    /\ UNCHANGED <<procs, use_sudo, sent>>
    /\ UNCHANGED <<via, binary_path, status, process, bm, ps, pl, cl>>

\* ---------------------------------------------------------------- restart
\* a caller calls restart(timeout=T): line 154 is about to call stop()
RestartBegin(i, T) ==
    /\ pc[i] = "idle"
    /\ pc' = [pc EXCEPT ![i] = "restart_stop"]
    /\ via' = [via EXCEPT ![i] = "restart"]
    /\ timeout' = [timeout EXCEPT ![i] = T]
    /\ UNCHANGED <<procs, pidFile, handle, use_sudo, ret, wait_for_ready, elapsed, sent,
                   binary_path, status, process, bm, ps, pl, cl>>

\* restart(), line 154: self.stop()
RestartStop(i) ==
    /\ pc[i] = "restart_stop"
    /\ StopBody(i)

\* restart(), lines 155-156: the pause is over;
\* self.start(wait_for_ready=True, timeout=timeout)
RestartStart(i, binary_ok) ==
    /\ pc[i] = "restart_pause"
    /\ StartBody(i, TRUE, timeout[i], binary_ok)

\* ------------------------------------------------------------ exit-time hook
\* the controller process of instance i ends (the CLI command returns, or
\* sys.exit): the interpreter is about to run the hook registered by
\* atexit.register(self.stop) in __init__
ExitBegin(i) ==
    /\ pc[i] = "idle"
    /\ pc' = [pc EXCEPT ![i] = "exiting"]
    /\ via' = [via EXCEPT ![i] = "atexit"]
    /\ UNCHANGED <<procs, pidFile, handle, use_sudo, ret, timeout, wait_for_ready, elapsed,
                   sent, binary_path, status, process, bm, ps, pl, cl>>

\* a CLI command ends when its call has returned and its output is printed:
\* the interpreter is about to run the hook, the outcome stays in ret
CommandExit(i) ==
    /\ pc[i] = "done"
    /\ pc' = [pc EXCEPT ![i] = "exiting"]
    /\ via' = [via EXCEPT ![i] = "atexit"]
    /\ UNCHANGED <<procs, pidFile, handle, use_sudo, ret, timeout, wait_for_ready, elapsed,
                   sent, binary_path, status, process, bm, ps, pl, cl>>

\* the atexit hook: self.stop()
ExitHook(i) ==
    /\ pc[i] = "exiting"
    /\ StopBody(i)

\* -------------------------------------------------------------- get_status
\* get_status() that lets psutil.NoSuchProcess escape
GetStatusBegin_Raises(i) ==
    /\ pc[i] = "idle"
    /\ LET running == is_running(i)
           pid == StatusPid(i)
       IN  IF running /\ pid # None /\ pid[1] \in Pids /\ procs[pid[1]].alive
           THEN /\ status' = [status EXCEPT ![i] = [pid |-> pid[1]] @@ BaseStatus(running)]
                /\ process' = [process EXCEPT ![i] = Popen(pid[1])]
                /\ pc' = [pc EXCEPT ![i] = "status_cpu"]
                /\ UNCHANGED <<ret, timeout, wait_for_ready, elapsed>>
           ELSE IF running /\ pid # None
           THEN /\ status' = [status EXCEPT ![i] = BaseStatus(running)]
                /\ Return(i, Ret("status_error", 0))
                /\ UNCHANGED process
           ELSE /\ status' = [status EXCEPT ![i] = BaseStatus(running)]
                /\ Return(i, Ret("status", 0))
                /\ UNCHANGED process
    /\ UNCHANGED <<procs, pidFile, handle, use_sudo, sent, via, binary_path, bm, ps, pl, cl>>

\* get_status(), lines 189-202: is_running(), the dict, the pid, and
\* psutil.Process(pid), whose NoSuchProcess is swallowed by line 205
GetStatusBegin(i) ==
    /\ pc[i] = "idle"
    /\ LET running == is_running(i)
           pid == StatusPid(i)
       IN  IF running /\ pid # None /\ pid[1] \in Pids /\ procs[pid[1]].alive
           THEN /\ status' = [status EXCEPT ![i] = [pid |-> pid[1]] @@ BaseStatus(running)]
                /\ process' = [process EXCEPT ![i] = Popen(pid[1])]
                /\ pc' = [pc EXCEPT ![i] = "status_cpu"]
                /\ UNCHANGED <<ret, timeout, wait_for_ready, elapsed>>
           ELSE /\ status' = [status EXCEPT ![i] = BaseStatus(running)]
                /\ Return(i, Ret("status", 0))
                /\ UNCHANGED process
    /\ UNCHANGED <<procs, pidFile, handle, use_sudo, sent, via, binary_path, bm, ps, pl, cl>>

\* psutil raises AccessDenied only for a process of another user: the
\* root-owned sudo wrapper or an unrelated process
MayDeny(p) == procs[p].alive /\ procs[p].kind # "sense"

\* get_status(), line 203: process.cpu_percent(); NoSuchProcess when the
\* process has gone, AccessDenied (denied) when it may not be inspected
GetStatusCpu(i, denied) ==
    /\ pc[i] = "status_cpu"
    /\ denied => MayDeny(process[i].pid)
    /\ IF process[i].exited \/ denied
       THEN /\ Return(i, Ret("status", 0))
            /\ UNCHANGED status
       ELSE /\ status' = [status EXCEPT ![i] = [cpu_percent |-> "sampled"] @@ status[i]]
            /\ pc' = [pc EXCEPT ![i] = "status_mem"]
            /\ UNCHANGED <<ret, timeout, wait_for_ready, elapsed>>
    /\ UNCHANGED <<procs, pidFile, handle, use_sudo, sent, via, binary_path, process, bm, ps, pl, cl>>

\* get_status(), lines 204-208: process.memory_info(), then return status
GetStatusMem(i, denied) ==
    /\ pc[i] = "status_mem"
    /\ denied => MayDeny(process[i].pid)
    /\ status' = [status EXCEPT ![i] =
                     IF process[i].exited \/ denied THEN status[i]
                     ELSE [memory_mb |-> "sampled"] @@ status[i]]
    /\ Return(i, Ret("status", 0))
    /\ UNCHANGED <<procs, pidFile, handle, use_sudo, sent, via, binary_path, process, bm, ps, pl, cl>>

\* the caller takes the outcome; the instance is ready for its next call
Ack(i) ==
    /\ pc[i] = "done"
    /\ pc' = [pc EXCEPT ![i] = "idle"]
    /\ ret' = [ret EXCEPT ![i] = NoRet]
    /\ sent' = [sent EXCEPT ![i] = <<>>]
    /\ via' = [via EXCEPT ![i] = "api"]
    /\ binary_path' = [binary_path EXCEPT ![i] = None]
    /\ status' = [status EXCEPT ![i] = NoStatus]
    /\ process' = [process EXCEPT ![i] = NoHandle]
    /\ UNCHANGED <<procs, pidFile, handle, use_sudo, timeout, wait_for_ready, elapsed, bm, ps, pl, cl>>

Next ==
    \/ \E p \in Pids : BackendReady(p)
    \/ \E p \in Pids : ProcExit(p)
    \/ \E p \in Pids : OtherSpawn(p)
    \/ \E i \in Inst, wfr \in BOOLEAN, T \in Timeouts, ok \in BOOLEAN : StartBegin(i, wfr, T, ok)
    \/ \E i \in Inst : StartSpawn(i)
    \/ \E i \in Inst : StartSavePid(i)
    \/ \E i \in Inst : WaitIter(i)
    \/ \E i \in Inst : StopBegin(i)
    \/ \E i \in Inst : StopWaitExit(i)
    \/ \E i \in Inst : StopWaitTimeout(i)
    \/ \E i \in Inst : StopKillWait(i)
    \/ \E i \in Inst : Ack(i)

Spec == Init /\ [][Next]_vars

\* the same with controllers that also call restart()
NextRestart ==
    \/ Next
    \/ \E i \in Inst, T \in Timeouts : RestartBegin(i, T)
    \/ \E i \in Inst : RestartStop(i)
    \/ \E i \in Inst, ok \in BOOLEAN : RestartStart(i, ok)

SpecRestart == Init /\ [][NextRestart]_vars

\* the same with controller processes that end
NextExit ==
    \/ Next
    \/ \E i \in Inst : ExitBegin(i)
    \/ \E i \in Inst : ExitHook(i)

SpecExit == Init /\ [][NextExit]_vars

\* a single controller: only instance 1 is ever called, so nothing else
\* writes the PID file or starts a backend; it calls start(), stop(),
\* restart() and get_status() in any order
NextSingle ==
    \/ \E p \in Pids : BackendReady(p)
    \/ \E p \in Pids : ProcExit(p)
    \/ \E p \in Pids : OtherSpawn(p)
    \/ \E wfr \in BOOLEAN, T \in Timeouts, ok \in BOOLEAN : StartBegin(1, wfr, T, ok)
    \/ StartSpawn(1)
    \/ StartSavePid(1)
    \/ WaitIter(1)
    \/ StopBegin(1)
    \/ StopWaitExit(1)
    \/ StopWaitTimeout(1)
    \/ StopKillWait(1)
    \/ \E T \in Timeouts : RestartBegin(1, T)
    \/ RestartStop(1)
    \/ \E ok \in BOOLEAN : RestartStart(1, ok)
    \/ GetStatusBegin(1)
    \/ \E denied \in BOOLEAN : GetStatusCpu(1, denied)
    \/ \E denied \in BOOLEAN : GetStatusMem(1, denied)
    \/ Ack(1)

SpecSingle == Init /\ [][NextSingle]_vars

\* controllers that call start(wait_for_ready=False), stop() and get_status()
NextStatus ==
    \/ \E p \in Pids : BackendReady(p)
    \/ \E p \in Pids : ProcExit(p)
    \/ \E p \in Pids : OtherSpawn(p)
    \/ \E i \in Inst, T \in Timeouts, ok \in BOOLEAN : StartBegin(i, FALSE, T, ok)
    \/ \E i \in Inst : StartSpawn(i)
    \/ \E i \in Inst : StartSavePid(i)
    \/ \E i \in Inst : StopBegin(i)
    \/ \E i \in Inst : StopWaitExit(i)
    \/ \E i \in Inst : StopWaitTimeout(i)
    \/ \E i \in Inst : StopKillWait(i)
    \/ \E i \in Inst : Ack(i)
    \/ \E i \in Inst : GetStatusBegin(i)
    \/ \E i \in Inst, denied \in BOOLEAN : GetStatusCpu(i, denied)
    \/ \E i \in Inst, denied \in BOOLEAN : GetStatusMem(i, denied)

SpecStatus == Init /\ [][NextStatus]_vars

\* the same with controllers that are CLI commands: the process ends after
\* the call, and the exit hook runs
NextCommand ==
    \/ NextStatus
    \/ \E i \in Inst : CommandExit(i)
    \/ \E i \in Inst : ExitHook(i)

SpecCommand == Init /\ [][NextCommand]_vars

\* ------------------------------------------------------------ BinaryManager
\* bm is one BinaryManager together with what it looks at:
\*   platform    sys.platform of the host
\*   inPath      `which sense` prints a path
\*   dev         <project root>/sense exists
\*   cache       <cache dir>/sense exists
\*   cacheExe    <cache dir>/sense.exe exists
\*   net         urlretrieve of the release asset succeeds
\*   cacheDirOk  get_cache_dir() can create/enter the cache directory
\*   chmodOk     os.chmod on a cache file found there is permitted
\*   memo        self._binary_path: "none" or which file it names
\*   attempted   the strategies the last get_binary_path() ran, in order
\*   result      what that call returned or raised ("none": taken by the caller)
\*   ok          some get_binary_path() on this instance has returned a path
Platforms == {"linux", "darwin", "win32"}
WorldFields == {"inPath", "dev", "cache", "cacheExe", "net", "cacheDirOk", "chmodOk"}
Order == <<"path", "dev", "cache", "download">>

\* Path.exists() of the file a memo names
Exists(b, where) ==
    CASE where = "path" -> b.inPath
      [] where = "dev" -> b.dev
      [] where = "cache" -> b.cache
      [] where = "cacheExe" -> b.cacheExe
      [] OTHER -> FALSE

\* _make_executable(path) on a file found in the cache raises PermissionError
ChmodFails(b) == b.platform # "win32" /\ ~b.chmodOk

\* _download_binary(), lines 173-175: the file the download is written to
DownloadTarget(b) == IF b.platform = "win32" THEN "cacheExe" ELSE "cache"

\* get_binary_path() that looks at the development tree before the search path
get_binary_path_DevFirst(b) ==
    IF b.memo # "none" /\ Exists(b, b.memo)
    THEN [b EXCEPT !.attempted = <<>>, !.result = b.memo, !.ok = TRUE]
    ELSE IF b.dev
    THEN [b EXCEPT !.memo = "dev", !.attempted = <<"dev">>, !.result = "dev", !.ok = TRUE]
    ELSE IF b.inPath
    THEN [b EXCEPT !.memo = "path", !.attempted = <<"dev", "path">>, !.result = "path",
                   !.ok = TRUE]
    ELSE IF ~b.cacheDirOk
    THEN [b EXCEPT !.attempted = SubSeq(Order, 1, 3), !.result = "OSError"]
    ELSE IF b.cache
    THEN IF ChmodFails(b)
         THEN [b EXCEPT !.memo = "cache", !.attempted = SubSeq(Order, 1, 3),
                        !.result = "OSError"]
         ELSE [b EXCEPT !.memo = "cache", !.attempted = SubSeq(Order, 1, 3),
                        !.result = "cache", !.ok = TRUE]
    ELSE IF ~b.net
    THEN [b EXCEPT !.attempted = Order, !.result = "BinaryNotFoundError"]
    ELSE [b EXCEPT ![DownloadTarget(b)] = TRUE, !.memo = DownloadTarget(b),
                   !.attempted = Order, !.result = DownloadTarget(b), !.ok = TRUE]

\* get_binary_path() that ignores self._binary_path and resolves afresh each time
get_binary_path_NoMemo(b) ==
    IF b.inPath
    THEN [b EXCEPT !.memo = "path", !.attempted = <<"path">>, !.result = "path", !.ok = TRUE]
    ELSE IF b.dev
    THEN [b EXCEPT !.memo = "dev", !.attempted = SubSeq(Order, 1, 2), !.result = "dev",
                   !.ok = TRUE]
    ELSE IF ~b.cacheDirOk
    THEN [b EXCEPT !.attempted = SubSeq(Order, 1, 3), !.result = "OSError"]
    ELSE IF b.cache
    THEN IF ChmodFails(b)
         THEN [b EXCEPT !.memo = "cache", !.attempted = SubSeq(Order, 1, 3),
                        !.result = "OSError"]
         ELSE [b EXCEPT !.memo = "cache", !.attempted = SubSeq(Order, 1, 3),
                        !.result = "cache", !.ok = TRUE]
    ELSE IF ~b.net
    THEN [b EXCEPT !.attempted = Order, !.result = "BinaryNotFoundError"]
    ELSE [b EXCEPT ![DownloadTarget(b)] = TRUE, !.memo = DownloadTarget(b),
                   !.attempted = Order, !.result = DownloadTarget(b), !.ok = TRUE]

\* get_binary_path(), lines 88-120: the memo test, then the four strategies.
\* get_cache_dir() and _make_executable() of strategy 3 are outside the try
\* of line 112, so what they raise leaves as it is (OSError); the file a
\* download creates belongs to the caller, so its chmod succeeds.
get_binary_path(b) ==
    IF b.memo # "none" /\ Exists(b, b.memo)
    THEN [b EXCEPT !.attempted = <<>>, !.result = b.memo, !.ok = TRUE]
    ELSE IF b.inPath
    THEN [b EXCEPT !.memo = "path", !.attempted = <<"path">>, !.result = "path", !.ok = TRUE]
    ELSE IF b.dev
    THEN [b EXCEPT !.memo = "dev", !.attempted = SubSeq(Order, 1, 2), !.result = "dev",
                   !.ok = TRUE]
    ELSE IF ~b.cacheDirOk
    THEN [b EXCEPT !.attempted = SubSeq(Order, 1, 3), !.result = "OSError"]
    ELSE IF b.cache
    THEN IF ChmodFails(b)
         THEN [b EXCEPT !.memo = "cache", !.attempted = SubSeq(Order, 1, 3),
                        !.result = "OSError"]
         ELSE [b EXCEPT !.memo = "cache", !.attempted = SubSeq(Order, 1, 3),
                        !.result = "cache", !.ok = TRUE]
    ELSE IF ~b.net
    THEN [b EXCEPT !.attempted = Order, !.result = "BinaryNotFoundError"]
    ELSE [b EXCEPT ![DownloadTarget(b)] = TRUE, !.memo = DownloadTarget(b),
                   !.attempted = Order, !.result = DownloadTarget(b), !.ok = TRUE]

\* BinaryManager() is constructed on a host
BmNew(platform) ==
    /\ bm.platform = "none"
    /\ bm' = [bm EXCEPT !.platform = platform]
    /\ UNCHANGED <<supVars, ps, pl, cl>>

\* the file system or the network changes: a file appears or is removed, the
\* network comes or goes, permissions change
BmWorld(f) ==
    /\ bm.platform # "none"
    /\ bm' = [bm EXCEPT ![f] = ~bm[f]]
    /\ UNCHANGED <<supVars, ps, pl, cl>>

\* a caller calls get_binary_path()
BmResolve ==
    /\ bm.platform # "none"
    /\ bm.result = "none"
    /\ bm' = get_binary_path(bm)
    /\ UNCHANGED <<supVars, ps, pl, cl>>

\* the caller takes what the call returned or raised
BmTake ==
    /\ bm.result # "none"
    /\ bm' = [bm EXCEPT !.result = "none", !.attempted = <<>>]
    /\ UNCHANGED <<supVars, ps, pl, cl>>

\* another BinaryManager() is constructed on the same host (a later run of the
\* program): __init__ sets self._binary_path = None; the files stay
BmFresh ==
    /\ bm.platform # "none"
    /\ bm.result = "none"
    /\ bm.memo # "none" \/ bm.ok
    /\ bm' = [bm EXCEPT !.memo = "none", !.ok = FALSE]
    /\ UNCHANGED <<supVars, ps, pl, cl>>

NextBinary ==
    \/ \E platform \in Platforms : BmNew(platform)
    \/ \E f \in WorldFields : BmWorld(f)
    \/ BmResolve
    \/ BmTake

SpecBinary == Init /\ [][NextBinary]_vars

\* a host whose cache directory only locators write to: one BinaryManager
\* after another resolves the binary, while everything but the files in the
\* cache directory changes
NextCache ==
    \/ \E platform \in Platforms : BmNew(platform)
    \/ \E f \in WorldFields \ {"cache", "cacheExe"} : BmWorld(f)
    \/ BmResolve
    \/ BmTake
    \/ BmFresh

SpecCache == Init /\ [][NextCache]_vars

\* ---------------------------------------------------------------- PID store
\* _save_pid/_read_pid/_remove_pid called on their own, and other programs
\* writing the file.  ps.content and ps.n record what was last put there.
PsInts == (0 - MaxInt)..MaxInt

\* texts that int() rejects with ValueError
JunkTexts == {<<>>, <<"a", "b", "c">>, <<"1", "2", "a">>, <<"-">>, <<"1", " ", "2">>,
              <<"1", ".", "5">>}

\* self._save_pid(n)
PsSave(n) ==
    /\ pidFile' = _save_pid(n)
    /\ ps' = [op |-> "save", content |-> "int", n |-> n, result |-> None]
    /\ UNCHANGED <<procs, handle, use_sudo, pc, ret, timeout, wait_for_ready, elapsed, sent,
                   via, binary_path, status, process, bm, pl, cl>>

\* self._read_pid()
PsRead ==
    /\ ps' = [ps EXCEPT !.op = "read", !.result = _read_pid]
    /\ UNCHANGED <<supVars, bm, pl, cl>>

\* self._remove_pid()
PsClear ==
    /\ pidFile' = _remove_pid
    /\ ps' = [op |-> "clear", content |-> "missing", n |-> 0, result |-> None]
    /\ UNCHANGED <<procs, handle, use_sudo, pc, ret, timeout, wait_for_ready, elapsed, sent,
                   via, binary_path, status, process, bm, pl, cl>>

\* something else leaves text in the file that is no integer
PsTamper(text) ==
    /\ pidFile' = [exists |-> TRUE, text |-> text]
    /\ ps' = [op |-> "tamper", content |-> "junk", n |-> 0, result |-> None]
    /\ UNCHANGED <<procs, handle, use_sudo, pc, ret, timeout, wait_for_ready, elapsed, sent,
                   via, binary_path, status, process, bm, pl, cl>>

NextPidStore ==
    \/ \E n \in PsInts : PsSave(n)
    \/ PsRead
    \/ PsClear
    \/ \E text \in JunkTexts : PsTamper(text)

SpecPidStore == Init /\ [][NextPidStore]_vars

\* -------------------------------------------------------------- SenseClient
\* A JSON text is written as what it denotes: [type, items], type "invalid"
\* for a text json rejects.  A finding is [has_severity, severity]: whether
\* the dict has the key "severity", and its value.
SeqUpTo(S, n) == UNION {[1..k -> S] : k \in 0..n}

Findings ==
    {[has_severity |-> FALSE, severity |-> 0]} \cup
    {[has_severity |-> TRUE, severity |-> x] : x \in 0..MaxSeverity}

Bodies ==
    {[type |-> t, items |-> <<>>] : t \in {"invalid", "object", "number", "null"}} \cup
    {[type |-> "array", items |-> f] : f \in SeqUpTo(Findings, MaxFindings)}

\* the outcome of the GET: a 200 answer, an error status, no connection
Https == {"ok", "http_error", "connection_error"}

Limits == {None} \cup {Some(n) : n \in (0 - 1)..(MaxFindings + 1)}

\* response.json() / json.loads(): None stands for JSONDecodeError
json(text) == IF text.type = "invalid" THEN None ELSE Some(text)

\* isinstance(findings, list)
isinstance_list(v) == v.type = "array"

\* list[:n]
Slice(f, n) ==
    IF n >= 0 THEN SubSeq(f, 1, IF n < Len(f) THEN n ELSE Len(f))
    ELSE SubSeq(f, 1, IF Len(f) + n > 0 THEN Len(f) + n ELSE 0)

\* f.get("severity", 0)
get_severity(f) == IF f.has_severity THEN f.severity ELSE 0

APIError == [raised |-> "APIError", value |-> <<>>]

\* get_findings(limit), lines 60-77
get_findings(http, body, limit) ==
    IF http # "ok" THEN APIError
    ELSE IF json(body) = None THEN APIError
    ELSE LET findings == json(body)[1]
             cut == IF limit # None /\ isinstance_list(findings)
                    THEN [findings EXCEPT !.items = Slice(findings.items, limit[1])]
                    ELSE findings
         IN  [raised |-> "none", value |-> IF isinstance_list(cut) THEN cut.items ELSE <<>>]

\* get_findings_by_severity() whose upper bound is exclusive
get_findings_by_severity_Exclusive(http, body, min_severity, max_severity) ==
    LET r == get_findings(http, body, None)
    IN  IF r.raised # "none" THEN r
        ELSE [raised |-> "none",
              value |-> SelectSeq(r.value,
                          LAMBDA f : min_severity <= get_severity(f)
                                     /\ get_severity(f) < max_severity)]

\* get_findings_by_severity(min_severity, max_severity), lines 171-176
get_findings_by_severity(http, body, min_severity, max_severity) ==
    LET r == get_findings(http, body, None)
    IN  IF r.raised # "none" THEN r
        ELSE [raised |-> "none",
              value |-> SelectSeq(r.value,
                          LAMBDA f : min_severity <= get_severity(f)
                                     /\ get_severity(f) <= max_severity)]

\* a caller calls get_findings(limit) and the backend answers http, body
ClGetFindings(http, body, limit) ==
    /\ cl.op = "none"
    /\ cl' = [ClIdle EXCEPT !.op = "get_findings", !.http = http, !.body = body,
                            !.limit = limit,
                            !.raised = get_findings(http, body, limit).raised,
                            !.result = get_findings(http, body, limit).value]
    /\ UNCHANGED <<supVars, bm, ps, pl>>

\* a caller calls get_findings_by_severity(lo, hi) and the backend answers
ClBySeverity(http, body, lo, hi) ==
    /\ cl.op = "none"
    /\ cl' = [ClIdle EXCEPT !.op = "by_severity", !.http = http, !.body = body,
                            !.min = lo, !.max = hi,
                            !.raised = get_findings_by_severity(http, body, lo, hi).raised,
                            !.result = get_findings_by_severity(http, body, lo, hi).value]
    /\ UNCHANGED <<supVars, bm, ps, pl>>

\* server-sent events: [event, data], data a JSON text carrying n
EventNames == {"finding", "connected", "message"}
Datas == {[type |-> "invalid", n |-> 0], [type |-> "object", n |-> 1],
          [type |-> "object", n |-> 2]}
Events == [event : EventNames, data : Datas]

\* stream_findings(), lines 89-98: the generator is started; the backend will
\* send events.  A failed request raises APIError.
StreamOpen(http, events) ==
    /\ cl.op = "none"
    /\ cl' = [ClIdle EXCEPT !.op = "stream", !.http = http,
                            !.events = IF http = "ok" THEN events ELSE <<>>,
                            !.raised = IF http = "ok" THEN "none" ELSE "APIError"]
    /\ UNCHANGED <<supVars, bm, ps, pl>>

\* stream_findings() that gives the stream up at a malformed finding event
StreamNext_StopsOnMalformed ==
    /\ cl.op = "stream" /\ cl.raised = "none"
    /\ cl.pos < Len(cl.events)
    /\ LET e == cl.events[cl.pos + 1] IN
       IF e.event = "finding"
       THEN IF json(e.data) # None
            THEN cl' = [cl EXCEPT !.pos = cl.pos + 1,
                                  !.result = Append(cl.result, json(e.data)[1])]
            ELSE cl' = [cl EXCEPT !.pos = Len(cl.events)]
       ELSE cl' = [cl EXCEPT !.pos = cl.pos + 1]
    /\ UNCHANGED <<supVars, bm, ps, pl>>

\* stream_findings(), lines 100-110: the next event of the stream is taken
\* and, if it is a finding that parses, yielded
StreamNext ==
    /\ cl.op = "stream" /\ cl.raised = "none"
    /\ cl.pos < Len(cl.events)
    /\ LET e == cl.events[cl.pos + 1] IN
       IF e.event = "finding"
       THEN IF json(e.data) # None
            THEN cl' = [cl EXCEPT !.pos = cl.pos + 1,
                                  !.result = Append(cl.result, json(e.data)[1])]
            ELSE cl' = [cl EXCEPT !.pos = cl.pos + 1]
       ELSE cl' = [cl EXCEPT !.pos = cl.pos + 1]
    /\ UNCHANGED <<supVars, bm, ps, pl>>

\* stream_findings(), lines 112-113: the connection breaks while the stream
\* is read
StreamDrop ==
    /\ cl.op = "stream" /\ cl.raised = "none"
    /\ cl.pos < Len(cl.events)
    /\ cl' = [cl EXCEPT !.http = "connection_error", !.raised = "APIError"]
    /\ UNCHANGED <<supVars, bm, ps, pl>>

\* the caller is done with what the call returned, raised or yielded
ClTake ==
    /\ cl.op # "none"
    /\ cl' = ClIdle
    /\ UNCHANGED <<supVars, bm, ps, pl>>

\* the set of inputs is enumerated only where a call can begin
NextClient ==
    \/ /\ cl.op = "none"
       /\ \E http \in Https, body \in Bodies, limit \in Limits :
             ClGetFindings(http, body, limit)
    \/ /\ cl.op = "none"
       /\ \E http \in Https, body \in Bodies, lo \in 0..MaxSeverity, hi \in 0..MaxSeverity :
             ClBySeverity(http, body, lo, hi)
    \/ /\ cl.op = "none"
       /\ \E http \in Https, events \in SeqUpTo(Events, MaxEvents) : StreamOpen(http, events)
    \/ StreamNext
    \/ StreamDrop
    \/ ClTake

SpecClient == Init /\ [][NextClient]_vars

\* ------------------------------------------------------ platform detection
\* BinaryManager.get_platform_info() is called on a platform reporting sys, mach
PlatformQuery(sys, mach) ==
    /\ pl' = [asked |-> TRUE, system |-> sys, machine |-> mach,
              os_name |-> get_platform_info(sys, mach)[1],
              arch |-> get_platform_info(sys, mach)[2]]
    /\ UNCHANGED <<supVars, bm, ps, cl>>

NextPlatform == \E sys \in Systems, mach \in Machines : PlatformQuery(sys, mach)

SpecPlatform == Init /\ [][NextPlatform]_vars

\* ======================================================================
\* Properties
\* ======================================================================

\* this step is instance i entering start()
StartCalled(i) ==
    /\ pc[i] = "idle"
    /\ \/ pc'[i] = "spawn"
       \/ pc'[i] = "done" /\ ret'[i].status \in {"start_noop", "start_nobinary"}

\* this step is instance i entering stop()
StopCalled(i) ==
    /\ pc[i] = "idle"
    /\ \/ pc'[i] = "stop_wait"
       \/ pc'[i] = "done" /\ ret'[i].status \in {"stop_noop", "stop_ok", "stop_error"}

\* this step is a call of instance i returning or raising
Returns(i) == pc[i] # "done" /\ pc'[i] = "done"

\* this step is instance i entering get_status()
GetStatusCalled(i) ==
    /\ pc[i] = "idle"
    /\ \/ pc'[i] = "status_cpu"
       \/ pc'[i] = "done" /\ ret'[i].status \in {"status", "status_error"}

\* this step is a step of the get_status() of instance i
GetStatusStep(i) ==
    \/ GetStatusCalled(i)
    \/ pc[i] \in {"status_cpu", "status_mem"} /\ pc'[i] # pc[i]

\* the keys a status dict holds
Keys(d) == DOMAIN d

\* the PID file names a live backend process (the backend itself or its sudo wrapper)
RecordedBackendAlive ==
    /\ _read_pid # None
    /\ _read_pid[1] \in Pids
    /\ procs[_read_pid[1]].alive
    /\ procs[_read_pid[1]].kind \in {"sense", "sudo"}

\* C1: whenever is_running() is true when start() is called, start() returns
\* normally without spawning a process and without writing the PID file; in
\* particular a second start() on a supervisor whose own process is alive
\* spawns nothing.
C1_IdempotentStart ==
    [][\A i \in Inst :
        (StartCalled(i) /\ is_running(i)) =>
            /\ pc'[i] = "done" /\ ret'[i].status = "start_noop"
            /\ procs' = procs
            /\ pidFile' = pidFile
            /\ handle' = handle]_vars

C1_Witness ==
    \E i \in Inst :
        /\ pc[i] = "done" /\ ret[i].status = "start_noop"
        /\ HandleLive(i) /\ procs[handle[i].pid].ready

\* C2: is_running() is false only if all three signals are negative: no live
\* handle, no live matching process behind the PID file, no answer from the
\* health probe; in particular it is true whenever the probe would succeed.
C2_FalseOnlyIfAllNegative ==
    \A i \in Inst :
        ~is_running(i) =>
            /\ ~HandleLive(i)
            /\ ~(PidTier # None /\ PidTier[1])
            /\ ~health_check

\* C3: with no live handle, a PID file naming a live process with the
\* backend's name makes is_running() true, and one naming a live process with
\* another name makes is_running() return what the health probe returns.
C3_PidTierReconciliation ==
    \A i \in Inst :
        (/\ ~HandleLive(i)
         /\ _read_pid # None /\ _read_pid[1] \in Pids
         /\ procs[_read_pid[1]].alive) =>
            IF NameMatches(_read_pid[1]) THEN is_running(i)
            ELSE is_running(i) = health_check

\* C4: no stop() of any controller removes the PID file while the backend
\* process it records is still alive.
C4_PidClearedOnlyAfterExit ==
    [][\A i \in Inst :
        (/\ pc[i] \in {"idle", "stop_wait", "stop_killwait"}
         /\ Returns(i)
         /\ pidFile.exists /\ ~pidFile'.exists) =>
            ~RecordedBackendAlive]_vars

\* C5: a stop() called while is_running() was true that returns without
\* raising leaves the backend exited and is_running() false, for the spawning
\* instance and for a fresh one alike.
C5_StopReachesStopped ==
    [][\A i \in Inst :
        (Returns(i) /\ ret'[i].status = "stop_ok") =>
            /\ ~RecordedBackendAlive
            /\ ~(is_running(i))']_vars

\* C6: a stop() through a live handle sends terminate first; kill is sent only
\* from the graceful wait and only when the process has not exited in it, and
\* is followed by the unbounded wait; the handle is dropped and the PID file
\* removed only by a step that observed the exit from one of the two waits; a
\* process that exited within the graceful wait is never sent the kill.
C6_StopEscalationOrder ==
    [][\A i \in Inst :
        /\ (StopCalled(i) /\ HandleLive(i) /\ ~Returns(i)) =>
              sent'[i] = <<"terminate">> /\ pc'[i] = "stop_wait"
        /\ (sent'[i] # sent[i] /\ sent'[i] # <<>> /\ sent'[i][Len(sent'[i])] = "kill") =>
              /\ pc[i] = "stop_wait" /\ sent[i] = <<"terminate">>
              /\ HandleLive(i)
              /\ pc'[i] = "stop_killwait"
        /\ (pc[i] = "stop_wait" /\ handle[i].exited /\ pc'[i] # pc[i]) =>
              sent'[i] = sent[i] /\ Returns(i)
        /\ (pc[i] = "stop_killwait" /\ pc'[i] # pc[i]) =>
              handle[i].exited /\ Returns(i)
        /\ (handle[i].held /\ ~handle'[i].held) =>
              /\ pc[i] \in {"stop_wait", "stop_killwait"}
              /\ handle[i].exited
              /\ pidFile' = NoFile]_vars

C6_Witness ==
    \E i \in Inst :
        /\ pc[i] = "done" /\ ret[i].status = "stop_ok"
        /\ sent[i] = <<"terminate", "kill">>
        /\ ~handle[i].held /\ ~pidFile.exists

\* C7: when sending the signal raises, stop() raises ServerError and leaves
\* the PID file with the same content and the handle held.
C7_FailedStopKeepsState ==
    [][\A i \in Inst :
        /\ (StopCalled(i) /\ HandleLive(i) /\ SignalDenied(handle[i].pid)) =>
              Returns(i) /\ ret'[i].status = "stop_error"
        /\ (Returns(i) /\ ret'[i].status = "stop_error") =>
              /\ pidFile' = pidFile
              /\ handle' = handle /\ handle[i].held
              /\ procs' = procs]_vars

C7_Witness ==
    \E i \in Inst :
        /\ pc[i] = "done" /\ ret[i].status = "stop_error"
        /\ handle[i].held
        /\ pidFile = _save_pid(handle[i].pid)

\* C8: stop() on an instance with no live process of its own is a no-op in
\* every environment state: it does not raise, sends no signal and leaves the
\* PID file and the handle as they were.
C8_StopWithoutProcessIsNoop ==
    [][\A i \in Inst :
        (StopCalled(i) /\ ~handle[i].held) =>
            /\ Returns(i) /\ ret'[i].status # "stop_error"
            /\ sent' = sent
            /\ pidFile' = pidFile
            /\ handle' = handle]_vars

\* C9: a readiness wait whose process stays alive and whose probe never
\* succeeds ends, at the deadline, in the timeout error naming the timeout in
\* seconds; no step of the wait signals the process, drops the handle or
\* touches the PID file.
C9_ReadinessTimeout ==
    [][\A i \in Inst :
        /\ (pc[i] = "wait" /\ Returns(i) /\ HandleLive(i) /\ ~health_check) =>
              /\ ret'[i].status = "start_timeout"
              /\ ret'[i].detail = timeout[i]
              /\ ~(elapsed[i] < timeout[i] * PollsPerSecond)
        /\ (pc[i] = "wait" /\ (pc'[i] # pc[i] \/ elapsed'[i] # elapsed[i])) =>
              /\ procs' = procs
              /\ pidFile' = pidFile
              /\ handle' = handle
              /\ sent'[i] = <<>>]_vars

C9_Witness ==
    \E i \in Inst :
        /\ pc[i] = "done" /\ ret[i].status = "start_timeout" /\ ret[i].detail \in Timeouts
        /\ HandleLive(i) /\ ~procs[handle[i].pid].ready
        /\ pidFile = _save_pid(handle[i].pid)

\* C10: a readiness wait whose process has exited, the probe never having
\* succeeded, ends in the process-died error carrying the process's stderr,
\* never in the timeout error.
C10_EarlyDeathReportedAsDeath ==
    [][\A i \in Inst :
        (pc[i] = "wait" /\ Returns(i) /\ handle[i].exited /\ ~health_check) =>
            /\ ret'[i].status = "start_died"
            /\ ret'[i].detail = handle[i].pid]_vars

\* C11 as stated: whenever start(wait_for_ready=True) raises because readiness
\* was not reached (process died or timed out), an immediately following
\* is_running() returns false.
C11_FailureEndsStopped ==
    [][\A i \in Inst :
        (Returns(i) /\ ret'[i].status \in {"start_died", "start_timeout"}) =>
            ~(is_running(i))']_vars

\* C11 amended: a start() that raises because its process died leaves no live
\* handle, so is_running() is true afterwards only if the PID file names a
\* live process with the backend's name; a start() that raises on the timeout
\* with its process alive keeps the live handle, so is_running() is true
\* afterwards.  A start() called while is_running() is false goes on to
\* resolve the binary and spawn; one called on a live handle is a no-op.
C11_FailureOutcomes ==
    [][\A i \in Inst :
        /\ (Returns(i) /\ ret'[i].status = "start_died") =>
              /\ ~(HandleLive(i))'
              /\ (is_running(i))' = (PidTier' = Some(TRUE))
        /\ (Returns(i) /\ ret'[i].status = "start_timeout" /\ HandleLive(i)) =>
              /\ (HandleLive(i))'
              /\ (is_running(i))'
        /\ (StartCalled(i) /\ ~is_running(i)) =>
              pc'[i] = "spawn" \/ ret'[i].status = "start_nobinary"
        /\ (StartCalled(i) /\ HandleLive(i)) =>
              ret'[i].status = "start_noop" /\ procs' = procs]_vars

C11_Witness ==
    \E i, j \in Inst :
        /\ pc[i] = "done" /\ ret[i].status = "start_died"
        /\ handle[i].exited /\ ~is_running(i)
        /\ pc[j] = "done" /\ ret[j].status = "start_timeout"
        /\ HandleLive(j) /\ is_running(j)

\* C12: a restart() whose stop() found the server running and which returns
\* normally has spawned a new process (its start() was not the no-op), and
\* is_running() is true afterwards; for the instance that spawned the server
\* and for a fresh one alike.
C12_RestartReplacesBackend ==
    [][\A i \in Inst :
        (/\ via[i] = "restart" /\ ret[i].status = "stop_ok"
         /\ Returns(i) /\ ret'[i].status \in {"start_ok", "start_noop"}) =>
            /\ ret'[i].status = "start_ok"
            /\ (HandleLive(i))'
            /\ (is_running(i))']_vars

\* C13: when the controller process of a `start --background` ends with the
\* backend it spawned alive and recorded in the PID file, its exit-time hook
\* signals nothing and leaves the PID file as it is.
C13_BackgroundSurvivesExit ==
    [][\A i \in Inst :
        (/\ pc[i] = "exiting" /\ pc'[i] # pc[i]
         /\ HandleLive(i) /\ pidFile = _save_pid(handle[i].pid)) =>
            /\ pc'[i] = "exited"
            /\ sent'[i] = <<>>
            /\ pidFile' = pidFile]_vars

\* C15: a start() whose binary resolution fails raises after that one
\* attempt, spawning nothing and leaving the PID file and the handle as they
\* were; no start() reaches the spawn without a resolved binary path.
C15_ResolutionFailureIsFatal ==
    [][\A i \in Inst :
        /\ (StartCalled(i) /\ ~is_running(i) /\ binary_path'[i] = None) =>
              /\ Returns(i) /\ ret'[i].status = "start_nobinary"
              /\ procs' = procs
              /\ pidFile' = pidFile
              /\ handle' = handle
        /\ (pc'[i] \in {"spawn", "savepid", "wait"}) => binary_path'[i] # None]_vars

C15_Witness ==
    \E i \in Inst :
        /\ pc[i] = "done" /\ ret[i].status = "start_nobinary"
        /\ binary_path[i] = None
        /\ ~handle[i].held /\ ~pidFile.exists
        /\ \A p \in Pids : ~procs[p].alive

\* C18: every start() that spawned overwrites the PID file with the PID of
\* its own process, whatever another controller recorded there; two
\* controllers can both pass the liveness check and both spawn, and then the
\* PID file names only the process of the one that wrote last.
C18_LastWriterWins ==
    [][\A i \in Inst :
        (pc[i] = "savepid" /\ pc'[i] # pc[i]) =>
            /\ pidFile' = _save_pid(handle[i].pid)
            /\ _read_pid' = Some(handle[i].pid)
            /\ \A j \in Inst \ {i} :
                  (handle[j].held /\ handle[j].pid # handle[i].pid) =>
                      _read_pid' # Some(handle[j].pid)]_vars

C18_Witness ==
    \E i, j \in Inst :
        /\ i # j
        /\ ~use_sudo[i] /\ ~use_sudo[j]
        /\ pc[i] = "wait" /\ pc[j] = "wait"
        /\ HandleLive(i) /\ HandleLive(j) /\ handle[i].pid # handle[j].pid
        /\ procs[handle[i].pid].kind = "sense" /\ procs[handle[j].pid].kind = "sense"
        /\ _read_pid = Some(handle[j].pid)

\* C19 as stated: in what get_status() returns, pid, cpu_percent and
\* memory_mb appear together (when running is true, a PID is known and the
\* process is accessible) or are all absent.
C19_OptionalFieldsTogether ==
    [][\A i \in Inst :
        (GetStatusStep(i) /\ Returns(i)) =>
            /\ ("pid" \in Keys(status'[i])) = ("cpu_percent" \in Keys(status'[i]))
            /\ ("pid" \in Keys(status'[i])) = ("memory_mb" \in Keys(status'[i]))]_vars

\* C19 amended: get_status() never raises because of an inaccessible or
\* vanished process and changes nothing; its result holds running, port,
\* interface and db_path, with running equal to what is_running() returned;
\* pid appears exactly when running is true, a PID is known and a process with
\* that PID existed when it was looked up; cpu_percent appears only with pid
\* and only when sampled from a process that was still there, memory_mb only
\* with cpu_percent, so pid can appear without them.
C19_StatusFields ==
    [][\A i \in Inst :
        /\ GetStatusCalled(i) =>
              /\ status'[i].running = is_running(i)
              /\ ("pid" \in Keys(status'[i])) =
                    (/\ is_running(i)
                     /\ StatusPid(i) # None
                     /\ StatusPid(i)[1] \in Pids
                     /\ procs[StatusPid(i)[1]].alive)
              /\ "pid" \in Keys(status'[i]) => status'[i].pid = StatusPid(i)[1]
        /\ (GetStatusStep(i) /\ Returns(i)) =>
              /\ ret'[i].status = "status"
              /\ {"running", "port", "interface", "db_path"} \subseteq Keys(status'[i])
              /\ Keys(status'[i]) \subseteq
                    {"running", "port", "interface", "db_path", "pid", "cpu_percent", "memory_mb"}
              /\ "memory_mb" \in Keys(status'[i]) => "cpu_percent" \in Keys(status'[i])
              /\ "cpu_percent" \in Keys(status'[i]) => "pid" \in Keys(status'[i])
              /\ "pid" \in Keys(status'[i]) => status'[i].running
        /\ (GetStatusStep(i) /\ Keys(status'[i]) # Keys(status[i]) /\ ~GetStatusCalled(i)) =>
              ~process[i].exited
        /\ GetStatusStep(i) =>
              /\ procs' = procs
              /\ pidFile' = pidFile
              /\ handle' = handle
              /\ sent' = sent]_vars

C19_Witness ==
    \E i \in Inst :
        /\ pc[i] = "done" /\ ret[i].status = "status"
        /\ status[i].running
        /\ "pid" \in Keys(status[i])
        /\ "cpu_percent" \notin Keys(status[i])
        /\ process[i].exited

\* the letter c is, as a number 1..26, or 0 when c is no letter
LetterIndex(c) ==
    IF \E k \in 1..26 : Lowercase[k] = c \/ Uppercase[k] = c
    THEN CHOOSE k \in 1..26 : Lowercase[k] = c \/ Uppercase[k] = c
    ELSE 0

\* a and b are the same string up to the case of their letters
SameIgnoringCase(a, b) ==
    /\ Len(a) = Len(b)
    /\ \A k \in 1..Len(a) :
          a[k] = b[k] \/ (LetterIndex(a[k]) # 0 /\ LetterIndex(a[k]) = LetterIndex(b[k]))

\* l is s with every upper-case letter replaced by its lower-case letter
IsLowerCased(l, s) ==
    /\ SameIgnoringCase(l, s)
    /\ \A k \in 1..Len(l) : \A u \in 1..26 : l[k] # Uppercase[u]

\* C20: for whatever (system, machine) strings the OS reports,
\* get_platform_info() returns: a system that is darwin, linux or windows up
\* to case maps to that name, x86_64 and amd64 map to amd64, aarch64 and arm64
\* map to arm64, and any other system or machine string is returned
\* lower-cased and otherwise unchanged.
C20_PlatformNormalization ==
    pl.asked =>
        /\ \A name \in {darwin, linux, windows} :
              SameIgnoringCase(pl.system, name) => pl.os_name = name
        /\ IsLowerCased(pl.os_name, pl.system)
        /\ IF SameIgnoringCase(pl.machine, x86_64) \/ SameIgnoringCase(pl.machine, amd64)
           THEN pl.arch = amd64
           ELSE IF SameIgnoringCase(pl.machine, aarch64) \/ SameIgnoringCase(pl.machine, arm64)
           THEN pl.arch = arm64
           ELSE IsLowerCased(pl.arch, pl.machine)

C20_Witness ==
    /\ pl.asked
    /\ pl.system = <<"D", "a", "r", "w", "i", "n">> /\ pl.os_name = darwin
    /\ pl.machine = <<"A", "A", "r", "c", "h", "6", "4">> /\ pl.arch = arm64

\* C17: a read() of the PID store returns the integer last saved when a
\* save() wrote the file last (so save(n); read() gives n, and after save(a);
\* save(b) it gives b), and None when the file is missing, was cleared (also
\* when it was already missing), or holds text that is no integer.
C17_PidStoreRoundTrip ==
    ps.op = "read" =>
        ps.result = (IF ps.content = "int" THEN Some(ps.n) ELSE None)

C17_Witness ==
    /\ ps.op = "read"
    /\ ps.content = "int" /\ ps.n < 0 - 9
    /\ pidFile.exists /\ Len(pidFile.text) = 3
    /\ ps.result = Some(ps.n)

\* this step is get_binary_path() being called and returning or raising
BmResolves == bm.result = "none" /\ bm'.result # "none"

\* the memoised path names a file that is there
MemoValid == bm.memo # "none" /\ Exists(bm, bm.memo)

\* C14: a get_binary_path() that resolves (no valid memoised path) runs the
\* strategies in the order search path, development tree, cache, download,
\* stops at the first that succeeds and returns its result, so no download is
\* attempted when one of the first three succeeds; it raises
\* BinaryNotFoundError only when all four were run and failed.
C14_StrategyOrder ==
    [][(BmResolves /\ ~MemoValid) =>
        /\ \E k \in 1..4 : bm'.attempted = SubSeq(Order, 1, k)
        /\ bm.inPath => bm'.result = "path" /\ bm'.attempted = SubSeq(Order, 1, 1)
        /\ (~bm.inPath /\ bm.dev) =>
              bm'.result = "dev" /\ bm'.attempted = SubSeq(Order, 1, 2)
        /\ (~bm.inPath /\ ~bm.dev /\ bm.cacheDirOk /\ bm.cache) =>
              /\ bm'.result \in {"cache", "OSError"}
              /\ bm'.attempted = SubSeq(Order, 1, 3)
        /\ bm'.attempted = Order =>
              /\ ~bm.inPath /\ ~bm.dev /\ ~bm.cache
              /\ bm'.result = IF bm.net THEN DownloadTarget(bm) ELSE "BinaryNotFoundError"
        /\ bm'.result = "BinaryNotFoundError" =>
              /\ bm'.attempted = Order
              /\ ~bm.inPath /\ ~bm.dev /\ ~bm.cache /\ ~bm.net
        /\ bm'.result \in {"path", "dev", "cache", "cacheExe"} =>
              bm'.memo = bm'.result /\ Exists(bm', bm'.result)]_vars

C14_Witness ==
    /\ bm.result = "BinaryNotFoundError"
    /\ bm.attempted = Order
    /\ ~bm.inPath /\ ~bm.dev /\ ~bm.cache /\ ~bm.net /\ bm.cacheDirOk

Yielded(es) ==
    LET sel == SelectSeq(es, LAMBDA e : e.event = "finding" /\ e.data.type # "invalid")
    IN  [k \in 1..Len(sel) |-> sel[k].data]

\* C21: at every point of a stream, stream_findings() has yielded, in stream
\* order, exactly the payloads of the events read so far that are named
\* finding and carry valid JSON; no other event yields or raises, and none
\* ends the stream; only a failed request or broken connection raises.
C21_StreamYieldsValidFindings ==
    cl.op = "stream" =>
        /\ cl.result = Yielded(SubSeq(cl.events, 1, cl.pos))
        /\ cl.raised # "none" => cl.http # "ok"

C21_Witness ==
    /\ cl.op = "stream" /\ cl.raised = "none"
    /\ Len(cl.events) = 3 /\ cl.pos = 3
    /\ cl.events[1].event = "finding" /\ cl.events[1].data.type = "invalid"
    /\ cl.events[2].event = "connected"
    /\ cl.events[3].event = "finding" /\ cl.events[3].data.type = "object"
    /\ cl.result = <<cl.events[3].data>>

\* the findings of f with severity in lo..hi, a missing severity counting as 0
RECURSIVE InRange(_, _, _)
InRange(f, lo, hi) ==
    IF f = <<>> THEN <<>>
    ELSE LET x == IF Head(f).has_severity THEN Head(f).severity ELSE 0
         IN  IF lo <= x /\ x <= hi THEN <<Head(f)>> \o InRange(Tail(f), lo, hi)
             ELSE InRange(Tail(f), lo, hi)

\* C22: on an array of findings get_findings_by_severity(min, max) returns,
\* in backend order, exactly the findings with min <= severity <= max, a
\* finding without severity counting as 0; get_findings(limit=n), n >= 0,
\* returns the first min(n, len) findings in backend order.
C22_SeverityFilterAndLimit ==
    /\ (cl.op = "by_severity" /\ cl.http = "ok" /\ cl.body.type = "array") =>
          /\ cl.raised = "none"
          /\ cl.result = InRange(cl.body.items, cl.min, cl.max)
    /\ (/\ cl.op = "get_findings" /\ cl.http = "ok" /\ cl.body.type = "array"
        /\ cl.limit # None /\ cl.limit[1] >= 0) =>
          /\ cl.raised = "none"
          /\ Len(cl.result) = IF cl.limit[1] < Len(cl.body.items)
                              THEN cl.limit[1] ELSE Len(cl.body.items)
          /\ \A k \in 1..Len(cl.result) : cl.result[k] = cl.body.items[k]

C22_Witness ==
    /\ cl.op = "by_severity" /\ cl.raised = "none"
    /\ cl.min = 0 /\ cl.max = 1
    /\ Len(cl.body.items) = 3
    /\ ~cl.body.items[1].has_severity
    /\ cl.body.items[2].has_severity /\ cl.body.items[2].severity = 2
    /\ cl.body.items[3].has_severity /\ cl.body.items[3].severity = 1
    /\ cl.result = <<cl.body.items[1], cl.body.items[3]>>

\* C23: a 200 answer to get_findings() whose payload is not valid JSON, or is
\* valid JSON but no array, raises an error.
C23_MalformedPayloadRaises ==
    (cl.op = "get_findings" /\ cl.http = "ok" /\ cl.body.type # "array") =>
        cl.raised = "APIError"

\* C24: when the file a download writes (DownloadTarget) is in the cache
\* directory, a locator with no remembered path, for which the search path and
\* the development tree give nothing and the cache directory is usable,
\* returns that same file from the cache strategy, without a download.
C24_CacheFindsDownload ==
    [][(/\ BmResolves
        /\ bm.memo = "none"
        /\ ~bm.inPath /\ ~bm.dev
        /\ bm.cacheDirOk /\ bm.chmodOk
        /\ Exists(bm, DownloadTarget(bm)))
       => (/\ bm'.result = DownloadTarget(bm)
           /\ bm'.attempted = SubSeq(Order, 1, 3))]_vars

\* the PID file holds the PID of the process behind instance i's handle
PidFileNamesHandle(i) == handle[i].held /\ pidFile = _save_pid(handle[i].pid)

\* instance i is inside start(), past binary resolution
InStart(i) == pc[i] \in {"spawn", "savepid", "wait"}

\* C25: with a single controller, start() resolves the binary before it
\* spawns, spawns before it writes the PID file, and writes the PID file before
\* its first readiness probe; while the readiness wait is in progress and when
\* start() has returned normally after spawning, the PID file holds exactly
\* the PID of the handle's process; with wait_for_ready=False start() returns
\* right after the PID write, without a probe.
C25_StartOrdering ==
    [][\A i \in Inst :
        /\ InStart(i)' => binary_path'[i] # None
        /\ (pc'[i] = "spawn" /\ pc[i] # "spawn") =>
              /\ pc[i] \in {"idle", "restart_pause"}
              /\ handle'[i] = handle[i] /\ procs' = procs /\ pidFile' = pidFile
        /\ (pc'[i] = "savepid" /\ pc[i] # "savepid") =>
              /\ pc[i] = "spawn"
              /\ handle'[i] = Popen(handle'[i].pid) /\ ~procs[handle'[i].pid].alive
              /\ procs'[handle'[i].pid].alive
              /\ pidFile' = pidFile
        /\ (pidFile' # pidFile /\ pidFile'.exists) =>
              /\ pc[i] = "savepid" => PidFileNamesHandle(i)'
              /\ \E j \in Inst : pc[j] = "savepid"
        /\ (pc'[i] = "wait" /\ pc[i] # "wait") =>
              /\ pc[i] = "savepid" /\ wait_for_ready[i]
              /\ elapsed'[i] = 0
        /\ (pc[i] = "savepid" /\ pc'[i] # "savepid" /\ ~wait_for_ready[i]) =>
              /\ pc'[i] = "done" /\ ret'[i] = Ret("start_ok", 0)
              /\ PidFileNamesHandle(i)'
        /\ (pc'[i] = "wait" \/ (pc'[i] = "done" /\ ret'[i].status = "start_ok")) =>
              PidFileNamesHandle(i)']_vars

C25_Witness ==
    /\ pc[1] = "done" /\ ret[1].status = "start_ok"
    /\ via[1] = "restart"
    /\ HandleLive(1) /\ handle[1].pid = 2
    /\ pidFile = _save_pid(2)
    /\ health_check

\* the PIDs of the live backend processes (the backend or its sudo wrapper)
Backends == {p \in Pids : procs[p].alive /\ procs[p].kind # "other"}

\* C26: a backend process appears only in the spawn step of a start() that
\* was called explicitly or by restart(); no step of stop(), get_status() or
\* is_running() starts one; while no backend is alive is_running() is false
\* for every supervisor and get_status() reports running = false, and it
\* stays so until a start() spawns again.
C26_NoAutomaticRecovery ==
    [][/\ Backends' \ Backends # {} =>
              \E i \in Inst :
                 /\ pc[i] = "spawn" /\ pc'[i] = "savepid"
                 /\ binary_path[i] # None
                 /\ handle'[i] = Popen(handle'[i].pid)
                 /\ Backends' \ Backends = {handle'[i].pid}
       /\ \A i \in Inst :
              /\ (pc'[i] = "spawn" /\ pc[i] # "spawn") =>
                    (StartCalled(i) \/ (pc[i] = "restart_pause" /\ via[i] = "restart"))
              /\ (\/ StopCalled(i)
                  \/ GetStatusStep(i)
                  \/ pc[i] \in {"stop_wait", "stop_killwait", "restart_stop"} /\ pc'[i] # pc[i]) =>
                    procs' = procs
              /\ Backends' = {} => ~is_running(i)'
              /\ (GetStatusCalled(i) /\ Backends = {}) =>
                    /\ pc'[i] = "done"
                    /\ status'[i] = BaseStatus(FALSE)]_vars

C26_Witness ==
    /\ pc[1] = "done" /\ ret[1].status = "status"
    /\ status[1] = BaseStatus(FALSE)
    /\ handle[1].held /\ handle[1].exited
    /\ pidFile = _save_pid(handle[1].pid)
    /\ Backends = {}

\* C27: a controller that holds no handle and only asks for the status (the
\* CLI `status` command) changes neither the PID file nor any process, in
\* get_status() and in the exit hook that runs when the command ends.
C27_StatusCommandReadOnly ==
    [][\A i \in Inst :
        (/\ ~handle[i].held
         /\ \/ GetStatusStep(i)
            \/ pc[i] = "done" /\ ret[i].status = "status" /\ pc'[i] = "exiting"
            \/ pc[i] = "exiting" /\ ret[i].status = "status" /\ pc'[i] # pc[i])
        => (pidFile' = pidFile /\ procs' = procs)]_vars

\* C28: when start(wait_for_ready=True) has spawned a process and returns
\* normally from its readiness wait, the process it spawned is alive at the
\* moment of return.
C28_ReadyMeansOwnChildAlive ==
    [][\A i \in Inst :
        (Returns(i) /\ pc[i] = "wait" /\ ret'[i].status = "start_ok")
        => (HandleLive(i)' /\ procs'[handle'[i].pid].alive)]_vars

\* C29: whenever get_status() adds a usage figure (cpu_percent, memory_mb) to
\* a status that carries a pid, that pid is the pid of the supervisor's live
\* handle when it has one, and otherwise the pid of a live process whose name
\* matches the backend.
C29_StatusPidIsBackend ==
    [][\A i \in Inst :
        (pc[i] \in {"status_cpu", "status_mem"} /\ Keys(status'[i]) # Keys(status[i]))
        => IF HandleLive(i)
           THEN status[i].pid = handle[i].pid
           ELSE procs[status[i].pid].alive /\ NameMatches(status[i].pid)]_vars

\* C30: a supervisor's handle is replaced or dropped only when the process it
\* refers to has exited: start() reaches its spawn only with no handle or an
\* exited one, so no instance has two processes of its own alive, whatever
\* sequence of start(), stop() and restart() it runs, failed starts included.
C30_NoSecondOwnProcess ==
    [][\A i \in Inst :
        /\ (handle'[i] # handle[i] /\ HandleLive(i)) =>
              /\ handle'[i] = [handle[i] EXCEPT !.exited = TRUE]
              /\ ~procs'[handle[i].pid].alive
        /\ pc'[i] = "spawn" => ~HandleLive(i)'
        /\ (pc[i] = "spawn" /\ pc'[i] = "savepid") =>
              /\ ~HandleLive(i)
              /\ HandleLive(i)']_vars

C30_Witness ==
    /\ pc[1] = "spawn"
    /\ via[1] = "restart"
    /\ handle[1].held /\ handle[1].exited
    /\ Backends = {}

\* C31: stop() sends terminate or kill only through the handle of the calling
\* instance, and only while the process that instance spawned is alive: an
\* instance without a live handle never signals, whatever PID the PID file
\* holds, so no unrelated process is signalled.
C31_SignalsOnlyThroughHandle ==
    [][\A i \in Inst :
        Len(sent'[i]) > Len(sent[i]) =>
            /\ HandleLive(i)
            /\ procs[handle[i].pid].alive
            /\ procs[handle[i].pid].kind # "other"
            /\ handle'[i] = handle[i]
            /\ pidFile' = pidFile
            /\ \E sig \in {"terminate", "kill"} : sent'[i] = Append(sent[i], sig)]_vars

C31_Witness ==
    /\ pc[1] = "stop_wait" /\ sent[1] = <<"terminate">>
    /\ HandleLive(1)
    /\ _read_pid # None /\ _read_pid[1] \in Pids /\ _read_pid[1] # handle[1].pid
    /\ procs[_read_pid[1]].alive /\ procs[_read_pid[1]].kind = "other"

====
